---- MODULE Spec2Model ----
(***************************************************************************)
(* Model of student-team-randomassignment.py: the greedy randomized        *)
(* assignment of peer-review teams to students, with a capacity cutoff.    *)
(*                                                                         *)
(* Teams are numbered 1..T in the key order of teams_students; students    *)
(* are numbers, as in 'student<k>'.  A Python list is a sequence, a dict   *)
(* is a function whose DOMAIN is its key set.                              *)
(***************************************************************************)
EXTENDS Integers, Sequences, FiniteSets, TLC

VARIABLES teams_students, teams_per_student, teams, assignment, teams_count, i, pc

vars == <<teams_students, teams_per_student, teams, assignment, teams_count, i, pc>>

(* Bounds of the family of inputs explored by Spec. *)
MaxTeams == 4
MaxTeamSize == 2
MaxStudents == 4
MaxQuota == 2

----------------------------------------------------------------------------
(* Helpers over lists. *)

Range(s) == {s[k] : k \in DOMAIN s}

RECURSIVE Sum(_)
Sum(s) == IF s = <<>> THEN 0 ELSE Head(s) + Sum(Tail(s))

(* sum(list_of_lists, []) : concatenation in order. *)
RECURSIVE Flatten(_)
Flatten(ls) == IF ls = <<>> THEN <<>> ELSE Head(ls) \o Flatten(Tail(ls))

(* range(a, b) as a list: a, a+1, ..., b-1. *)
PyRange(a, b) == [k \in 1..(b - a) |-> a + k - 1]

(* list.remove(x): drops the first occurrence of x. *)
RECURSIVE Remove(_, _)
Remove(l, x) ==
    IF l = <<>> THEN <<>>
    ELSE IF Head(l) = x THEN Tail(l)
    ELSE <<Head(l)>> \o Remove(Tail(l), x)

(* math.ceil(n / d) for integers n >= 0, d > 0. *)
Ceil(n, d) == (n + d - 1) \div d

----------------------------------------------------------------------------
(* Values the script computes once from its input (lines 12-16). *)

(* teams = list(teams_students.keys()) *)
InitialTeams(ts) == [k \in 1..Len(ts) |-> k]

(* students = sum(teams_students.values(), []) *)
students == Flatten(teams_students)

(* max_students = ceil((N - N/T) / T * q), i.e. ceil(N*(T-1)*q / T^2). *)
MaxStudentsOf(n, t, q) == Ceil(n * (t - 1) * q, t * t)

max_students ==
    MaxStudentsOf(Len(students), Len(teams_students), teams_per_student)

----------------------------------------------------------------------------
(* The body of the loop over students (lines 20-41). *)

(* mask = [key for key, val in teams_students.items() if student in val] *)
Mask(ts, s) == SelectSeq(InitialTeams(ts), LAMBDA key : s \in Range(ts[key]))

(* Mutant: the mask is not applied. *)
CandidatesUnmasked(tms, mask) == tms

(* [a for a in teams if a not in mask] *)
Candidates(tms, mask) == SelectSeq(tms, LAMBDA a : a \notin Range(mask))

(* Mutant: a population of exactly k elements is refused too. *)
SampleRaisesOffByOne(pop, k) == k >= Len(pop) \/ k < 0

(* random.sample raises ValueError when the sample is larger than the
   population (or negative). *)
SampleRaises(pop, k) == k > Len(pop) \/ k < 0

(* Mutant: sampling with replacement. *)
SamplesWithRepeats(pop, k) ==
    { [j \in 1..k |-> pop[p[j]]] : p \in [1..k -> 1..Len(pop)] }

(* The outcomes of random.sample(pop, k): the lists of k elements taken at
   k different positions of pop, in any order. *)
Samples(pop, k) ==
    { [j \in 1..k |-> pop[p[j]]] :
        p \in { f \in [1..k -> 1..Len(pop)] :
                  \A a, b \in 1..k : a # b => f[a] # f[b] } }

(* assignment.values() : the values in insertion order, which is the order
   in which the students were processed. *)
Values(asg, studs) ==
    LET done == SelectSeq(studs, LAMBDA s : s \in DOMAIN asg)
    IN  [k \in 1..Len(done) |-> asg[done[k]]]

(* Mutant: the else branch of lines 32-33 is missing, so a team that is no
   longer a key of the fresh dict is not counted. *)
RECURSIVE TallyKnownOnly(_, _)
TallyKnownOnly(cnt, l) ==
    IF l = <<>> THEN cnt
    ELSE TallyKnownOnly(IF Head(l) \in DOMAIN cnt
                        THEN [cnt EXCEPT ![Head(l)] = @ + 1] ELSE cnt,
                        Tail(l))

(* Lines 29-33: one pass over the assigned teams; a key that is missing
   from the dict is created with 1. *)
RECURSIVE Tally(_, _)
Tally(cnt, l) ==
    IF l = <<>> THEN cnt
    ELSE LET t == Head(l)
             nxt == IF t \in DOMAIN cnt
                    THEN [cnt EXCEPT ![t] = @ + 1]
                    ELSE [u \in DOMAIN cnt \cup {t} |->
                            IF u = t THEN 1 ELSE cnt[u]]
         IN  Tally(nxt, Tail(l))

(* Lines 28-33: teams_count = dict.fromkeys(teams, 0), then the tally over
   sum(assignment.values(), []). *)
CountTeams(tms, asg, studs) ==
    Tally([t \in Range(tms) |-> 0], Flatten(Values(asg, studs)))

(* Mutant: > instead of >= . *)
AtCapacityStrict(cnt, t, max) == cnt[t] > max

(* teams_count.get(t) >= max_students *)
AtCapacity(cnt, t, max) == cnt[t] >= max

(* Mutant: the pass walks the live list instead of the copy teams[:], so
   the element that follows a removed one is skipped. *)
RECURSIVE WalkLive(_, _, _, _)
WalkLive(tms, k, cnt, max) ==
    IF k > Len(tms) THEN tms
    ELSE WalkLive(IF cnt[tms[k]] >= max THEN Remove(tms, tms[k]) ELSE tms,
                  k + 1, cnt, max)

RemoveFullLive(tms, copy, cnt, max) == WalkLive(tms, 1, cnt, max)

(* Lines 36-38: for t in teams[:] : if at capacity, teams.remove(t).
   copy is the snapshot teams[:] still to be visited. *)
RECURSIVE RemoveFull(_, _, _, _)
RemoveFull(tms, copy, cnt, max) ==
    IF copy = <<>> THEN tms
    ELSE RemoveFull(IF AtCapacity(cnt, Head(copy), max)
                    THEN Remove(tms, Head(copy)) ELSE tms,
                    Tail(copy), cnt, max)

(* Line 35: the test that guards the pass. *)
FilterGuard(tms, q) == Len(tms) > q

(* Lines 35-41. *)
Filter(tms, cnt, max, q) ==
    IF FilterGuard(tms, q) THEN RemoveFull(tms, tms, cnt, max) ELSE tms

----------------------------------------------------------------------------
(* Inputs. *)

(* teams_students with the given team sizes, students numbered 1..N. *)
RECURSIVE Offset(_, _)
Offset(sz, k) == IF k = 1 THEN 0 ELSE Offset(sz, k - 1) + sz[k - 1]

Build(sz) == [k \in 1..Len(sz) |-> PyRange(Offset(sz, k) + 1, Offset(sz, k) + sz[k] + 1)]

Inputs ==
    { Build(sz) : sz \in { s \in UNION { [1..t -> 1..MaxTeamSize] : t \in 2..MaxTeams } :
                            Sum(s) <= MaxStudents } }

(* The literal of lines 5-10. *)
ShippedTeamsStudents ==
    << PyRange(1, 5), PyRange(6, 10), PyRange(11, 15),
       PyRange(16, 20), PyRange(21, 25), PyRange(25, 30) >>

ShippedQuota == 2

----------------------------------------------------------------------------
(* The program. *)

Start(ts, q) ==
    /\ teams_students = ts
    /\ teams_per_student = q
    /\ teams = InitialTeams(ts)
    /\ assignment = <<>>
    /\ teams_count = <<>>
    /\ i = 1
    /\ pc = "loop"

Init ==
    \E ts \in Inputs : \E q \in 1..MaxQuota :
        /\ q < Len(ts)
        /\ Start(ts, q)

(* One iteration of the loop for students[i] that draws `draw`. *)
Assign ==
    /\ pc = "loop"
    /\ i <= Len(students)
    /\ LET s == students[i]
           mask == Mask(teams_students, s)
           pool == Candidates(teams, mask)
       IN  /\ ~SampleRaises(pool, teams_per_student)
           /\ \E draw \in Samples(pool, teams_per_student) :
                LET asg == [x \in DOMAIN assignment \cup {s} |->
                              IF x = s THEN draw ELSE assignment[x]]
                    cnt == CountTeams(teams, asg, students)
                IN  /\ assignment' = asg
                    /\ teams_count' = cnt
                    /\ teams' = Filter(teams, cnt, max_students, teams_per_student)
    /\ i' = i + 1
    /\ UNCHANGED <<teams_students, teams_per_student, pc>>

(* The iteration in which random.sample raises: the exception of line 26
   ends the script. *)
Raise ==
    /\ pc = "loop"
    /\ i <= Len(students)
    /\ SampleRaises(Candidates(teams, Mask(teams_students, students[i])),
                    teams_per_student)
    /\ pc' = "error"
    /\ UNCHANGED <<teams_students, teams_per_student, teams, assignment, teams_count, i>>

(* The loop is exhausted: the report is printed (lines 43-50). *)
Finish ==
    /\ pc = "loop"
    /\ i > Len(students)
    /\ pc' = "done"
    /\ UNCHANGED <<teams_students, teams_per_student, teams, assignment, teams_count, i>>

Next == Assign \/ Raise \/ Finish

Spec == Init /\ [][Next]_vars

----------------------------------------------------------------------------
(* The shipped input (lines 5-16): 6 teams, 25 students, quota 2.           *)
(*                                                                         *)
(* The loop reads the earlier entries of assignment only through the tally *)
(* of lines 28-33, and that tally is the previous one plus the new draw    *)
(* (CountsCarried below states it, and it is checked under Spec).  The     *)
(* 25-entry assignment dict has too many values to enumerate, so the       *)
(* specification of the shipped input projects it away: it carries the     *)
(* counts and leaves assignment empty.  teams, teams_count, i and the      *)
(* outcome of the run are those of the script.                             *)

(* Mutant: the previous tally is dropped. *)
CarryCountsFresh(tms, cnt, draw) == Tally([t \in Range(tms) |-> 0], draw)

(* The tally of lines 28-33 given the previous tally and the new draw. *)
CarryCounts(tms, cnt, draw) ==
    Tally([t \in DOMAIN cnt \cup Range(tms) |->
             IF t \in DOMAIN cnt THEN cnt[t] ELSE 0], draw)

InitShipped == Start(ShippedTeamsStudents, ShippedQuota)

AssignCounted ==
    /\ pc = "loop"
    /\ i <= Len(students)
    /\ LET s == students[i]
           mask == Mask(teams_students, s)
           pool == Candidates(teams, mask)
       IN  /\ ~SampleRaises(pool, teams_per_student)
           /\ \E draw \in Samples(pool, teams_per_student) :
                LET cnt == CarryCounts(teams, teams_count, draw)
                IN  /\ teams_count' = cnt
                    /\ teams' = Filter(teams, cnt, max_students, teams_per_student)
    /\ i' = i + 1
    /\ UNCHANGED <<teams_students, teams_per_student, assignment, pc>>

NextShipped == AssignCounted \/ Raise \/ Finish

SpecShipped == InitShipped /\ [][NextShipped]_vars

(* Under Spec, the recomputed tally is the carried one. *)
CountsCarried ==
    [][\A s \in DOMAIN assignment' \ DOMAIN assignment :
          teams_count' = CarryCounts(teams, teams_count, assignment'[s])]_vars

----------------------------------------------------------------------------
(* Vocabulary of the properties. *)

OriginalTeams == 1..Len(teams_students)

(* The teams that list student s as a member. *)
HomeTeams(s) == {t \in OriginalTeams : \E k \in DOMAIN teams_students[t] : teams_students[t][k] = s}

(* The students whose iteration has completed. *)
Processed == {students[k] : k \in 1..(i - 1)}

Eligible == {teams[k] : k \in DOMAIN teams}

Removed == OriginalTeams \ Eligible

RECURSIVE SumOver(_, _)
SumOver(f, S) ==
    IF S = {} THEN 0
    ELSE LET x == CHOOSE y \in S : TRUE IN f[x] + SumOver(f, S \ {x})

----------------------------------------------------------------------------
(* C1: every processed student has a recorded assignment, and it lists
   exactly teams_per_student pairwise distinct teams of the original team
   list. *)
C1_AssignmentShape ==
    /\ DOMAIN assignment = Processed
    /\ \A s \in DOMAIN assignment :
        /\ Len(assignment[s]) = teams_per_student
        /\ \A a, b \in DOMAIN assignment[s] :
              a # b => assignment[s][a] # assignment[s][b]
        /\ \A a \in DOMAIN assignment[s] : assignment[s][a] \in OriginalTeams

(* A completed run with a quota of two teams per student. *)
C1_Witness ==
    /\ pc = "done"
    /\ teams_per_student = 2
    /\ Cardinality(DOMAIN assignment) = Len(students)

(* C2: the assignment of a student never contains a team the student is a
   member of. *)
C2_NoHomeTeam ==
    \A s \in DOMAIN assignment : \A t \in HomeTeams(s) :
        \A a \in DOMAIN assignment[s] : assignment[s][a] # t

(* A processed student whose home team is still eligible, so that only the
   mask kept it out of the draw. *)
C2_Witness ==
    \E s \in DOMAIN assignment : HomeTeams(s) \cap Eligible # {}

(* C3: the eligible list always holds at least teams_per_student teams. *)
C3_AtLeastQuota == Len(teams) >= teams_per_student

(* C4: in a completed run of the shipped input no final reviewer count
   exceeds max_students + 1. *)
C4_BalancedAtCap ==
    pc = "done" =>
        \A t \in DOMAIN teams_count : teams_count[t] <= max_students + 1

(* C5: an iteration ends the run with the error exactly when fewer than
   teams_per_student eligible teams are left once the student's home team
   is set aside; the failing iteration records nothing and changes nothing
   else, and no step follows the error. *)
C5_AbortIffPoolTooSmall ==
    [][ /\ pc # "error"
        /\ (pc = "loop" /\ i <= Len(students)) =>
              LET pool == Eligible \ HomeTeams(students[i])
              IN  /\ (pc' = "error") <=> (Cardinality(pool) < teams_per_student)
                  /\ pc' = "error" =>
                        /\ assignment' = assignment
                        /\ students[i] \notin DOMAIN assignment'
                        /\ i' = i /\ teams' = teams /\ teams_count' = teams_count
                  /\ pc' # "error" => students[i] \in DOMAIN assignment' ]_vars

(* The run was aborted after some students had been processed. *)
C5_Witness == pc = "error" /\ DOMAIN assignment # {}

(* C6: once a student has been processed, teams_count has a count for every
   team, removed ones included, and the counts sum to teams_per_student
   times the number of students processed. *)
C6_CountsSum ==
    i > 1 =>
        /\ DOMAIN teams_count = OriginalTeams
        /\ SumOver(teams_count, DOMAIN teams_count)
              = teams_per_student * Cardinality(DOMAIN assignment)
        /\ pc = "done" =>
              SumOver(teams_count, DOMAIN teams_count)
                 = teams_per_student * Len(students)

(* A completed run in which a team was removed from the eligible list. *)
C6_Witness == pc = "done" /\ Removed # {} /\ Len(students) > 1

(* C7: on the shipped input a run that does not raise processes all 25
   students and ends with 2 * 25 reviews counted; such a run exists (the
   witness). *)
C7_CompletesOrRaises ==
    /\ pc \in {"loop", "error", "done"}
    /\ pc = "done" =>
          /\ i = Len(students) + 1
          /\ Len(students) = 25
          /\ SumOver(teams_count, DOMAIN teams_count) = ShippedQuota * 25

(* The shipped run has completed without the error. *)
C7_Witness == pc = "done" /\ i = 26 /\ teams_students = ShippedTeamsStudents

(* C9: a pass that starts with more than teams_per_student eligible teams
   removes every team whose count has reached max_students; hence, when a
   student is about to be processed and more than teams_per_student teams
   are eligible, every eligible team is strictly below max_students. *)
C9_FullTeamsRemoved ==
    /\ [](Len(teams) > teams_per_student =>
            \A t \in Eligible \cap DOMAIN teams_count :
                teams_count[t] < max_students)
    /\ [][(i' = i + 1 /\ Len(teams) > teams_per_student) =>
            \A t \in Eligible : teams_count'[t] >= max_students => t \notin Range(teams')]_vars

(* The last pass removed a team, more than teams_per_student teams are still
   eligible and another student is about to be processed. *)
C9_Witness ==
    /\ pc = "loop" /\ i > 1 /\ i <= Len(students)
    /\ Len(teams) > teams_per_student
    /\ \E a \in DOMAIN assignment[students[i - 1]] :
          assignment[students[i - 1]][a] \in Removed

(* C10: a removed team is never eligible again and is never drawn again;
   its count is exactly max_students from its removal on. *)
C10_RemovedFrozen ==
    /\ [](\A t \in Removed : teams_count[t] = max_students)
    /\ [][ /\ Removed \subseteq {t \in OriginalTeams : t \notin Range(teams')}
           /\ \A s \in DOMAIN assignment' \ DOMAIN assignment :
                 \A a \in DOMAIN assignment'[s] : assignment'[s][a] \notin Removed ]_vars

(* A student was processed after a team had been removed: the team is not
   in the draw of the last student, so an earlier pass removed it. *)
C10_Witness ==
    /\ i > 1
    /\ \E t \in Removed :
          \A a \in DOMAIN assignment[students[i - 1]] :
              assignment[students[i - 1]][a] # t

====
